---- MODULE Spec2Model ----
(***************************************************************************)
(* SecuDNS-Suite, dns_security_suite.py: the DNS record analysis           *)
(* (analyze_dns_records), the zone-transfer probe (check_zone_transfer),   *)
(* and main(): argument handling, the ThreadPoolExecutor block that runs   *)
(* one analyze_dns_records task per domain and collects the futures into   *)
(* the results dict, reporting, the zone-transfer alert and the summary.   *)
(* The module's last two lines call main() twice.                          *)
(*                                                                         *)
(* Python values: a dict is the sequence of its items in insertion order   *)
(* ([key, val] records), None is the string "None", a list is             *)
(* [type |-> "list", items |-> <<...>>] and a str built by an f-string is  *)
(* [type |-> "str", text |-> <<part, ...>>].  A hostname "ns1.<domain>"    *)
(* is the pair <<"ns1", domain>>.                                          *)
(***************************************************************************)
EXTENDS Integers, Sequences, FiniteSets, TLC

VARIABLES
    argv,          \* the parsed command line (args), the same for both main() calls
    inventory_file,\* the file --inventory names: whether it exists, and its lines
    libs,          \* TRUE iff the optional imports (pandas, jinja2) succeeded
    call,          \* which of the two main() calls of the module's last lines runs
    pc,            \* position of the main thread inside main()
    domains,       \* main's local list of domains
    future_map,    \* the submitted futures, in submission order
    yielded,       \* futures as_completed has already handed to the for loop
    results,       \* main's results dict
    body,          \* main's alert body (list of lines)
    alert_pos,     \* how many items of results the alert loop has walked
    probes,        \* zone-transfer probes made by this main() call
    ns_lookups,    \* get_nameservers calls made by this main() call
    log,           \* lines this main() call appended to dns_suite.log (main thread)
    stdout,        \* what the process has printed so far
    reports,       \* report files written by the process so far
    emails,        \* alert e-mails handed to SMTP by the process so far
    exit_status,   \* "running" until the interpreter exits, then its exit status
    rq, rr,        \* analyze_dns_records applied on its own: input, returned dict
    xq, xr         \* check_zone_transfer applied on its own: input, returned list

vars == <<argv, inventory_file, libs, call, pc, domains, future_map, yielded,
          results, body, alert_pos, probes, ns_lookups, log, stdout, reports,
          emails, exit_status, rq, rr, xq, xr>>

mainVars == <<argv, inventory_file, libs, call, pc, domains, future_map, yielded,
              results, body, alert_pos, probes, ns_lookups, log, stdout, reports,
              emails, exit_status>>

(***************************************************************************)
(* Bounds of the model.                                                    *)
(***************************************************************************)
MaxDomains == 2        \* longest inventory explored by Spec
MaxZoneLines == 2      \* longest zone text explored by SpecProbe
PoolExtra == 1         \* SpecPool submits max_workers + PoolExtra domains

DomainNames == {"a.com", "b.com"}
ZoneLineTexts == {"a.", "b."}
None == "None"

(***************************************************************************)
(* Python dict and list helpers.                                           *)
(***************************************************************************)
Range(s) == {s[i] : i \in DOMAIN s}
SeqsUpTo(S, n) == UNION {[1..k -> S] : k \in 0..n}
dict_keys(d) == {d[i].key : i \in DOMAIN d}
dict_has(d, k) == \E i \in DOMAIN d : d[i].key = k
dict_get(d, k) == d[CHOOSE i \in DOMAIN d : d[i].key = k].val
\* a mutant: every assignment appends an item, also for a key already present
dict_setitem_append(d, k, v) == Append(d, [key |-> k, val |-> v])
\* d[k] = v
dict_setitem(d, k, v) ==
    IF dict_has(d, k)
    THEN [i \in DOMAIN d |-> IF d[i].key = k THEN [key |-> k, val |-> v] ELSE d[i]]
    ELSE Append(d, [key |-> k, val |-> v])
py_list(s) == [type |-> "list", items |-> s]
py_str(parts) == [type |-> "str", text |-> parts]
Map(s, F(_)) == [i \in DOMAIN s |-> F(s[i])]

(***************************************************************************)
(* The DNS client, dns.resolver.resolve: for each query it either raises   *)
(* (the record type is in `failing`, with exception text `reason`) or      *)
(* returns the answer rrset of the zone.                                   *)
(***************************************************************************)
types == <<"A", "AAAA", "MX", "TXT", "NS", "CNAME", "SOA", "SRV", "PTR">>
RecordTypes == Range(types)
Reasons == {"NXDOMAIN", "Timeout"}

Zone(domain, rtype) ==
    CASE rtype = "A"     -> <<[address |-> <<"192.0.2.1", domain>>]>>
      [] rtype = "AAAA"  -> <<[address |-> <<"2001:db8::1", domain>>]>>
      [] rtype = "MX"    -> <<[preference |-> 10, exchange |-> <<"mail", domain>>]>>
      [] rtype = "TXT"   -> <<[text |-> <<"v=spf1 -all", domain>>]>>
      [] rtype = "NS"    -> <<[target |-> <<"ns1", domain>>], [target |-> <<"ns2", domain>>]>>
      [] rtype = "CNAME" -> <<[target |-> <<"www", domain>>]>>
      [] rtype = "SOA"   -> <<[mname |-> <<"ns1", domain>>, rname |-> <<"hostmaster", domain>>,
                               serial |-> 1],
                              [mname |-> <<"ns2", domain>>, rname |-> <<"hostmaster", domain>>,
                               serial |-> 2]>>
      [] rtype = "SRV"   -> <<[priority |-> 1, weight |-> 2, port |-> 443,
                               target |-> <<"srv", domain>>]>>
      [] rtype = "PTR"   -> <<[target |-> <<"ptr", domain>>]>>

Nameservers == {<<h, d>> : h \in {"ns1", "ns2"}, d \in DomainNames}

dns_resolver_resolve(domain, rtype, failing, reason) ==
    IF rtype \in failing
    THEN [raised |-> TRUE, e |-> reason, answers |-> <<>>]
    ELSE [raised |-> FALSE, e |-> None, answers |-> Zone(domain, rtype)]

(***************************************************************************)
(* analyze_dns_records                                                     *)
(***************************************************************************)
address_of(r) == r.address
exchange_of(r) == r.exchange
text_of(r) == r.text
target_of(r) == r.target
srv_of(r) == <<r.priority, r.weight, r.port, r.target>>

\* the if/elif chain of the try block: the value stored for a successful query
format_answers(rtype, answers) ==
    CASE rtype \in {"A", "AAAA"} -> py_list(Map(answers, address_of))
      [] rtype = "MX"            -> py_list(Map(answers, exchange_of))
      [] rtype = "TXT"           -> py_list(Map(answers, text_of))
      [] rtype \in {"NS", "CNAME", "PTR"} -> py_list(Map(answers, target_of))
      [] rtype = "SOA"           -> py_list(<<answers[1].mname, answers[1].rname,
                                              answers[1].serial>>)
      [] rtype = "SRV"           -> py_list(Map(answers, srv_of))

\* the except block: records[rtype] = f"Error: {e}"
error_value(e) == py_str(<<"Error: ", e>>)
is_error_value(v) == v.type = "str" /\ v.text[1] = "Error: "

\* a mutant: the try wraps the whole loop, so the first failure ends it
after_except_abort(i) == Len(types) + 1
\* the try/except is inside the for loop: after the except block the loop
\* goes on with the next record type
after_except(i) == i + 1

\* a mutant: the handler names one exception class of the resolver only
except_catches_nxdomain(e) == e = "NXDOMAIN"
\* `except Exception as e` catches whatever dns.resolver.resolve raises
except_catches(e) == e \in Reasons

\* TRUE iff an exception of a query leaves analyze_dns_records: no handler
\* of the function catches it
analyze_raises(domain, failing, reason) ==
    \E i \in DOMAIN types :
        LET q == dns_resolver_resolve(domain, types[i], failing, reason)
        IN  q.raised /\ ~except_catches(q.e)

RECURSIVE analyze_loop(_, _, _, _, _)
analyze_loop(domain, failing, reason, i, records) ==
    IF i > Len(types) THEN records
    ELSE LET rtype == types[i]
             q == dns_resolver_resolve(domain, rtype, failing, reason)
         IN  IF q.raised /\ ~except_catches(q.e)
             THEN records
             ELSE IF q.raised
             THEN analyze_loop(domain, failing, reason, after_except(i),
                               dict_setitem(records, rtype, error_value(q.e)))
             ELSE analyze_loop(domain, failing, reason, i + 1,
                               dict_setitem(records, rtype, format_answers(rtype, q.answers)))

analyze_dns_records(domain, failing, reason) ==
    analyze_loop(domain, failing, reason, 1, <<>>)

(***************************************************************************)
(* get_nameservers and check_zone_transfer                                 *)
(***************************************************************************)
\* outcomes of dns.zone.from_xfr(dns.query.xfr(nameserver, domain, timeout=5)):
\* an exception of one of these kinds, or a zone (from_xfr hands back only
\* zones that have their SOA and NS records, so the text has a line at least)
\* `lines` of a failed transfer is what had arrived before the exception.
XfrFailures == {"refused", "timeout", "connection", "malformed"}
XfrOutcome(failure, lines) == [failure |-> failure, lines |-> lines]

get_nameservers(domain, ns_fails) ==
    LET q == dns_resolver_resolve(domain, "NS", IF ns_fails THEN {"NS"} ELSE {}, "Timeout")
    IN  IF q.raised THEN <<>> ELSE Map(q.answers, target_of)

\* a mutant: what arrived before the transfer broke is returned
check_zone_transfer_partial(domain, nameserver, xfr) ==
    IF xfr.failure \in {None, "malformed"} THEN xfr.lines ELSE <<>>
check_zone_transfer(domain, nameserver, xfr) ==
    IF xfr.failure = None THEN xfr.lines ELSE <<>>

(***************************************************************************)
(* load_inventory.  A line of the file is [pad, text]: text is what        *)
(* line.strip() leaves, pad says whether strip() had whitespace other than *)
(* the newline to remove.                                                  *)
(***************************************************************************)
InventoryLines == {[pad |-> FALSE, text |-> d] : d \in DomainNames}
                  \cup {[pad |-> TRUE, text |-> ""]}
NoFile == [exists |-> FALSE, lines |-> <<>>]
File(lines) == [exists |-> TRUE, lines |-> lines]
strip(line) == line.text
nonblank(text) == text # ""

load_inventory(file) ==
    IF ~file.exists THEN <<>> ELSE SelectSeq(Map(file.lines, strip), nonblank)

(***************************************************************************)
(* main(): the command line.                                               *)
(***************************************************************************)
max_workers == 10

Args == [domain : {None, "a.com"}, inventory : {None, "inventory.txt"},
         zone_transfer : BOOLEAN, report : {None, "html", "xlsx"},
         alert_email : BOOLEAN, smtp_server : {None, "smtp.example"}]

\* the outcomes of the DNS client during one scan task that Spec explores:
\* every query answered, or every query failing
AllAnswered == [failing |-> {}, reason |-> "Timeout"]
AllFailing == [failing |-> RecordTypes, reason |-> "NXDOMAIN"]
ScanEnvs == {AllAnswered, AllFailing}
\* the outcomes of a zone transfer that Spec explores
XfrEnvs == {XfrOutcome("refused", <<>>), XfrOutcome(None, <<"a.", "b.">>)}

\* analyze_dns_records tabulated for the domains and DNS outcomes explored
scan_result == [d \in DomainNames, env \in ScanEnvs |->
                    analyze_dns_records(d, env.failing, env.reason)]

Future(dom) == [dom |-> dom, state |-> "PENDING", kind |-> None, value |-> None]

InitLocals ==
    /\ domains = <<>>
    /\ future_map = <<>>
    /\ yielded = {}
    /\ results = <<>>
    /\ body = <<>>
    /\ alert_pos = 0
    /\ probes = {}
    /\ ns_lookups = {}
    /\ log = <<>>

InitProcess ==
    /\ call = 1
    /\ pc = "args"
    /\ stdout = <<>>
    /\ reports = <<>>
    /\ emails = <<>>
    /\ exit_status = "running"

\* analyze_dns_records and check_zone_transfer are not applied on their own
NotReturned == [returned |-> FALSE, raised |-> FALSE, value |-> <<>>]
Returned(v) == [returned |-> TRUE, raised |-> FALSE, value |-> v]
Raised == [returned |-> FALSE, raised |-> TRUE, value |-> <<>>]
NoPure == rq = None /\ rr = NotReturned /\ xq = None /\ xr = NotReturned

\* The command lines explored give at most one of domain and --inventory
\* (main ignores domain when --inventory is given), and the optional
\* libraries matter only when a report is requested.
Init ==
    /\ argv \in Args
    /\ inventory_file \in {NoFile} \cup {File(l) : l \in SeqsUpTo(InventoryLines, MaxDomains)}
    /\ (argv.inventory = None => inventory_file = NoFile)
    /\ (argv.inventory # None => argv.domain = None)
    /\ libs \in BOOLEAN
    /\ (argv.report = None => libs)
    /\ InitProcess
    /\ InitLocals
    /\ NoPure

(***************************************************************************)
(* main(): "Determine domains set".                                        *)
(***************************************************************************)
LogLine(level, event, subject) == [level |-> level, event |-> event, subject |-> subject]

DetermineDomains ==
    /\ pc = "args"
    /\ IF argv.inventory # None
       THEN /\ domains' = load_inventory(inventory_file)
            /\ log' = Append(log, IF ~inventory_file.exists
                                  THEN LogLine("ERROR", "Inventory file not found", argv.inventory)
                                  ELSE LogLine("INFO", "Loaded inventory", argv.inventory))
            /\ pc' = "pool"
            /\ UNCHANGED stdout
       ELSE IF argv.domain # None
       THEN /\ domains' = <<argv.domain>>
            /\ pc' = "pool"
            /\ UNCHANGED <<log, stdout>>
       ELSE /\ stdout' = Append(stdout, [msg |-> "Specify --inventory or a single domain",
                                         n |-> 0])
            /\ pc' = "returned"
            /\ UNCHANGED <<domains, log>>
    /\ UNCHANGED <<argv, inventory_file, libs, call, future_map, yielded, results, body,
                   alert_pos, probes, ns_lookups, reports, emails, exit_status,
                   rq, rr, xq, xr>>

(***************************************************************************)
(* main(): the ThreadPoolExecutor block.                                   *)
(***************************************************************************)
Running == {i \in DOMAIN future_map : future_map[i].state = "RUNNING"}
Finished == {i \in DOMAIN future_map : future_map[i].state = "FINISHED"}
all_submitted == Len(future_map) = Len(domains)

\* a mutant: a pool that starts a thread for every work item
pool_unbounded == TRUE
\* ThreadPoolExecutor(max_workers=10): a queued work item is taken only by
\* one of at most max_workers threads, each running one item at a time
pool_has_free_worker == Cardinality(Running) < max_workers

\* a mutant: the iteration never ends once a task has raised
as_completed_hangs_on_exception ==
    /\ yielded = DOMAIN future_map
    /\ \A i \in yielded : future_map[i].kind = "result"
\* a mutant: the for loop is left after the first completed future
as_completed_first == yielded # {} \/ future_map = <<>>
\* the for loop over as_completed(future_map) ends when every future of
\* future_map has been handed out
as_completed_exhausted == yielded = DOMAIN future_map

\* future_map = {executor.submit(analyze_dns_records, d): d for d in domains}
Submit ==
    /\ pc = "pool"
    /\ ~all_submitted
    /\ future_map' = Append(future_map, Future(domains[Len(future_map) + 1]))
    /\ UNCHANGED <<argv, inventory_file, libs, call, pc, domains, yielded, results, body,
                   alert_pos, probes, ns_lookups, log, stdout, reports, emails,
                   exit_status, rq, rr, xq, xr>>

\* a worker thread takes the oldest queued work item
WorkerStart(i) ==
    /\ future_map[i].state = "PENDING"
    /\ \A j \in 1..(i - 1) : future_map[j].state # "PENDING"
    /\ pool_has_free_worker
    /\ future_map' = [future_map EXCEPT ![i].state = "RUNNING"]
    /\ UNCHANGED <<argv, inventory_file, libs, call, pc, domains, yielded, results, body,
                   alert_pos, probes, ns_lookups, log, stdout, reports, emails,
                   exit_status, rq, rr, xq, xr>>

\* the task ends: the future holds the dict analyze_dns_records built, or
\* the exception that left it
task_outcome(dom, env) ==
    IF analyze_raises(dom, env.failing, env.reason)
    THEN [kind |-> "exception", value |-> env.reason]
    ELSE [kind |-> "result", value |-> scan_result[dom, env]]

\* a mutant: the worker stores its dict under results[dom] itself
TaskReturnWith_publishes(i, env) ==
    /\ future_map[i].state = "RUNNING"
    /\ future_map' = [future_map EXCEPT
                        ![i].state = "FINISHED",
                        ![i].kind = task_outcome(future_map[i].dom, env).kind,
                        ![i].value = task_outcome(future_map[i].dom, env).value]
    /\ results' = IF task_outcome(future_map[i].dom, env).kind = "result"
                  THEN dict_setitem(results, future_map[i].dom,
                                    task_outcome(future_map[i].dom, env).value)
                  ELSE results
    /\ UNCHANGED <<argv, inventory_file, libs, call, pc, domains, yielded, body,
                   alert_pos, probes, ns_lookups, log, stdout, reports, emails,
                   exit_status, rq, rr, xq, xr>>
\* the task returns in its worker thread: only its future changes
TaskReturnWith(i, env) ==
    /\ future_map[i].state = "RUNNING"
    /\ future_map' = [future_map EXCEPT
                        ![i].state = "FINISHED",
                        ![i].kind = task_outcome(future_map[i].dom, env).kind,
                        ![i].value = task_outcome(future_map[i].dom, env).value]
    /\ UNCHANGED <<argv, inventory_file, libs, call, pc, domains, yielded, results, body,
                   alert_pos, probes, ns_lookups, log, stdout, reports, emails,
                   exit_status, rq, rr, xq, xr>>

TaskReturn(i) == \E env \in ScanEnvs : TaskReturnWith(i, env)

\* an exception that is no resolution error leaves the task: the future
\* holds the exception
TaskRaise(i) ==
    /\ future_map[i].state = "RUNNING"
    /\ future_map' = [future_map EXCEPT
                        ![i].state = "FINISHED",
                        ![i].kind = "exception",
                        ![i].value = "unexpected"]
    /\ UNCHANGED <<argv, inventory_file, libs, call, pc, domains, yielded, results, body,
                   alert_pos, probes, ns_lookups, log, stdout, reports, emails,
                   exit_status, rq, rr, xq, xr>>

\* a mutant: a second result for a key is merged into the stored one, item
\* by item, instead of replacing it
collect_results_merge(res, future) ==
    IF future.kind # "result" THEN res
    ELSE IF dict_has(res, future.dom)
    THEN LET old == dict_get(res, future.dom)
         IN  dict_setitem(res, future.dom,
                          [j \in DOMAIN future.value |->
                              IF j % 2 = 1 THEN old[j] ELSE future.value[j]])
    ELSE dict_setitem(res, future.dom, future.value)
\* a mutant: a result is stored in a new dict that holds this item only
collect_results_fresh(res, future) ==
    IF future.kind = "result"
    THEN <<[key |-> future.dom, val |-> future.value]>>
    ELSE res
\* recs = future.result(); results[dom] = recs -- skipped when result() raises
collect_results(res, future) ==
    IF future.kind = "result"
    THEN dict_setitem(res, future.dom, future.value)
    ELSE res

\* a mutant: the exception is swallowed without a log line
collect_log_silent(lg, future) == lg
\* except Exception as e: logging.error(f"Error analyzing {dom}: {e}")
collect_log(lg, future) ==
    IF future.kind = "exception"
    THEN Append(lg, LogLine("ERROR", "Error analyzing", future.dom))
    ELSE lg

\* one iteration of `for future in as_completed(future_map)`
Collect(i) ==
    /\ pc = "pool"
    /\ all_submitted
    /\ i \in Finished \ yielded
    /\ yielded' = yielded \cup {i}
    /\ results' = collect_results(results, future_map[i])
    /\ log' = collect_log(log, future_map[i])
    /\ UNCHANGED <<argv, inventory_file, libs, call, pc, domains, future_map, body,
                   alert_pos, probes, ns_lookups, stdout, reports, emails,
                   exit_status, rq, rr, xq, xr>>

\* the for loop ends and the with block is left: its __exit__ is
\* shutdown(wait=True), which returns when no work item is queued or running
LeavePool ==
    /\ pc = "pool"
    /\ all_submitted
    /\ as_completed_exhausted
    /\ Finished = DOMAIN future_map
    /\ pc' = "report"
    /\ UNCHANGED <<argv, inventory_file, libs, call, domains, future_map, yielded, results,
                   body, alert_pos, probes, ns_lookups, log, stdout, reports, emails,
                   exit_status, rq, rr, xq, xr>>

(***************************************************************************)
(* main(): "Reporting".  generate_html_report and generate_xlsx_report     *)
(* write nothing and log an error when their library is not installed.     *)
(***************************************************************************)
generate_report(fmt) ==
    IF libs
    THEN /\ reports' = Append(reports, [format |-> fmt, call |-> call])
         /\ log' = Append(log, LogLine("INFO", "report written", fmt))
    ELSE /\ log' = Append(log, LogLine("ERROR", "not installed, cannot generate report", fmt))
         /\ UNCHANGED reports

Report ==
    /\ pc = "report"
    /\ IF argv.report = "html" THEN generate_report("html")
       ELSE IF argv.report = "xlsx" THEN generate_report("xlsx")
       ELSE UNCHANGED <<reports, log>>
    /\ pc' = "alert"
    /\ UNCHANGED <<argv, inventory_file, libs, call, domains, future_map, yielded, results,
                   body, alert_pos, probes, ns_lookups, stdout, emails, exit_status,
                   rq, rr, xq, xr>>

(***************************************************************************)
(* main(): "Email Alert stub: notify if any zone transfer allowed".        *)
(***************************************************************************)
alert_requested == argv.alert_email /\ argv.smtp_server # None

alert_line(dom, nsrv) == py_str(<<"[ALERT] ", dom, " allows zone transfer on ", nsrv>>)

\* a mutant: a line for every probed nameserver, whatever the probe returned
alert_lines_all(dom, ns, xfr, k) ==
    [j \in 1..k |-> alert_line(dom, ns[j])]
\* the inner loop `for nsrv in ns` over the first k nameservers: the lines
\* it appends to body, one for each nameserver whose probe returned a
\* non-empty list
RECURSIVE alert_lines(_, _, _, _)
alert_lines(dom, ns, xfr, k) ==
    IF k = 0 THEN <<>>
    ELSE LET z == check_zone_transfer(dom, ns[k], xfr[ns[k]])
         IN  IF z # <<>>
             THEN Append(alert_lines(dom, ns, xfr, k - 1), alert_line(dom, ns[k]))
             ELSE alert_lines(dom, ns, xfr, k - 1)

Probe(dom, nsrv, xfr) ==
    [domain |-> dom, nameserver |-> nsrv, xfr |-> xfr,
     z |-> check_zone_transfer(dom, nsrv, xfr)]

\* the condition of the alert block is false: the block is skipped
AlertSkip ==
    /\ pc = "alert"
    /\ ~alert_requested
    /\ pc' = "summary"
    /\ UNCHANGED <<argv, inventory_file, libs, call, domains, future_map, yielded, results,
                   body, alert_pos, probes, ns_lookups, log, stdout, reports, emails,
                   exit_status, rq, rr, xq, xr>>

\* one iteration of `for dom, recs in results.items()`
AlertDomain ==
    /\ pc = "alert"
    /\ alert_requested
    /\ alert_pos < Len(results)
    /\ LET dom == results[alert_pos + 1].key
       IN  \E ns_fails \in BOOLEAN :
             LET ns == get_nameservers(dom, ns_fails)
             IN  \E xfr \in [Range(ns) -> XfrEnvs] :
                   /\ ns_lookups' = ns_lookups \cup {[domain |-> dom, ns |-> ns]}
                   /\ probes' = probes \cup {Probe(dom, ns[j], xfr[ns[j]]) : j \in DOMAIN ns}
                   /\ body' = body \o alert_lines(dom, ns, xfr, Len(ns))
    /\ alert_pos' = alert_pos + 1
    /\ UNCHANGED <<argv, inventory_file, libs, call, pc, domains, future_map, yielded,
                   results, log, stdout, reports, emails, exit_status, rq, rr, xq, xr>>

\* `if body:` after the loop: main calls send_email_notification, or goes on
AlertSend ==
    /\ pc = "alert"
    /\ alert_requested
    /\ alert_pos = Len(results)
    /\ pc' = IF body # <<>> THEN "smtp" ELSE "summary"
    /\ UNCHANGED <<argv, inventory_file, libs, call, domains, future_map, yielded, results,
                   body, alert_pos, probes, ns_lookups, log, stdout, reports, emails,
                   exit_status, rq, rr, xq, xr>>

\* send_email_notification comes back: the message was sent, or smtplib
\* raised and the failure was logged.  smtplib.SMTP(smtp_server, port) is
\* given no timeout, so the call is over only when the server has answered.
send_email_notification ==
    /\ pc = "smtp"
    /\ \E smtp_ok \in BOOLEAN :
          IF smtp_ok
          THEN /\ emails' = Append(emails, [subject |-> "DNS Suite Alert", call |-> call])
               /\ log' = Append(log, LogLine("INFO", "Alert email sent", None))
          ELSE /\ log' = Append(log, LogLine("ERROR", "Failed to send email", None))
               /\ UNCHANGED emails
    /\ pc' = "summary"
    /\ UNCHANGED <<argv, inventory_file, libs, call, domains, future_map, yielded, results,
                   body, alert_pos, probes, ns_lookups, stdout, reports, exit_status,
                   rq, rr, xq, xr>>

(***************************************************************************)
(* main(): the final print, and the two main() calls of the script.        *)
(***************************************************************************)
Summary ==
    /\ pc = "summary"
    /\ stdout' = Append(stdout, [msg |-> "Analysis complete for n domain(s)",
                                  n |-> Len(domains)])
    /\ pc' = "returned"
    /\ UNCHANGED <<argv, inventory_file, libs, call, domains, future_map, yielded, results,
                   body, alert_pos, probes, ns_lookups, log, reports, emails, exit_status,
                   rq, rr, xq, xr>>

\* the first main() has returned: the next line calls main() again, with
\* new locals
SecondCall ==
    /\ pc = "returned"
    /\ call = 1
    /\ call' = 2
    /\ pc' = "args"
    /\ domains' = <<>>
    /\ future_map' = <<>>
    /\ yielded' = {}
    /\ results' = <<>>
    /\ body' = <<>>
    /\ alert_pos' = 0
    /\ probes' = {}
    /\ ns_lookups' = {}
    /\ log' = <<>>
    /\ UNCHANGED <<argv, inventory_file, libs, stdout, reports, emails, exit_status,
                   rq, rr, xq, xr>>

\* the second main() has returned: the script ends, the interpreter exits 0
Exit ==
    /\ pc = "returned"
    /\ call = 2
    /\ pc' = "exited"
    /\ exit_status' = 0
    /\ UNCHANGED <<argv, inventory_file, libs, call, domains, future_map, yielded, results,
                   body, alert_pos, probes, ns_lookups, log, stdout, reports, emails,
                   rq, rr, xq, xr>>

Next ==
    \/ DetermineDomains
    \/ Submit
    \/ \E i \in DOMAIN future_map : WorkerStart(i)
    \/ \E i \in DOMAIN future_map : TaskReturn(i)
    \/ \E i \in DOMAIN future_map : TaskRaise(i)
    \/ \E i \in DOMAIN future_map : Collect(i)
    \/ LeavePool
    \/ Report
    \/ AlertSkip
    \/ AlertDomain
    \/ AlertSend
    \/ send_email_notification
    \/ Summary
    \/ SecondCall
    \/ Exit

Spec == Init /\ [][Next]_vars

(***************************************************************************)
(* Scheduling.  The threads are scheduled fairly, every DNS query comes    *)
(* back within the resolver's lifetime and every transfer attempt within   *)
(* its timeout=5, so a step of a worker or of the main thread that can be  *)
(* taken is taken.  The one call without a timeout is the SMTP delivery.   *)
(***************************************************************************)
ScanStep ==
    \/ DetermineDomains
    \/ Submit
    \/ \E i \in DOMAIN future_map : WorkerStart(i)
    \/ \E i \in DOMAIN future_map : TaskReturn(i)
    \/ \E i \in DOMAIN future_map : TaskRaise(i)
    \/ \E i \in DOMAIN future_map : Collect(i)
    \/ LeavePool
    \/ Report
    \/ AlertSkip
    \/ AlertDomain
    \/ AlertSend
    \/ Summary
    \/ SecondCall
    \/ Exit

FairSpec == Spec /\ WF_vars(ScanStep)

(***************************************************************************)
(* analyze_dns_records on its own, for every domain and every set of       *)
(* failing queries.                                                        *)
(***************************************************************************)
InitResolve ==
    /\ rq \in [domain : DomainNames, failing : SUBSET RecordTypes, reason : Reasons]
    /\ rr = NotReturned
    /\ xq = None /\ xr = NotReturned
    /\ argv = [domain |-> rq.domain, inventory |-> None, zone_transfer |-> FALSE,
               report |-> None, alert_email |-> FALSE, smtp_server |-> None]
    /\ inventory_file = NoFile
    /\ libs = TRUE
    /\ InitProcess
    /\ InitLocals

ApplyResolve ==
    /\ rr = NotReturned
    /\ rr' = IF analyze_raises(rq.domain, rq.failing, rq.reason)
             THEN Raised
             ELSE Returned(analyze_dns_records(rq.domain, rq.failing, rq.reason))
    /\ UNCHANGED <<mainVars, rq, xq, xr>>

NextResolve == ApplyResolve

SpecResolve == InitResolve /\ [][NextResolve]_vars

(***************************************************************************)
(* check_zone_transfer on its own, for every outcome of the transfer: an   *)
(* exception after any part of the zone has arrived, or a whole zone.      *)
(***************************************************************************)
XfrOutcomes ==
    {XfrOutcome(f, l) : f \in XfrFailures, l \in SeqsUpTo(ZoneLineTexts, MaxZoneLines)}
    \cup {XfrOutcome(None, l) : l \in SeqsUpTo(ZoneLineTexts, MaxZoneLines) \ {<<>>}}

InitProbe ==
    /\ xq \in [domain : DomainNames, nameserver : Nameservers, xfr : XfrOutcomes]
    /\ xr = NotReturned
    /\ rq = None /\ rr = NotReturned
    /\ argv = [domain |-> xq.domain, inventory |-> None, zone_transfer |-> TRUE,
               report |-> None, alert_email |-> FALSE, smtp_server |-> None]
    /\ inventory_file = NoFile
    /\ libs = TRUE
    /\ InitProcess
    /\ InitLocals

ApplyProbe ==
    /\ ~xr.returned
    /\ xr' = Returned(check_zone_transfer(xq.domain, xq.nameserver, xq.xfr))
    /\ UNCHANGED <<mainVars, rq, rr, xq>>

NextProbe == ApplyProbe

SpecProbe == InitProbe /\ [][NextProbe]_vars

(***************************************************************************)
(* The executor with more domains than workers: an inventory of            *)
(* max_workers + PoolExtra lines, every query answered.  The main thread   *)
(* submits and the worker threads run the tasks; the collecting loop of    *)
(* main reads the futures and changes none, so it is left out here.        *)
(***************************************************************************)
PoolSize == max_workers + PoolExtra

InitPool ==
    /\ argv = [domain |-> None, inventory |-> "inventory.txt", zone_transfer |-> FALSE,
               report |-> None, alert_email |-> FALSE, smtp_server |-> None]
    /\ inventory_file = File([i \in 1..PoolSize |-> [pad |-> FALSE, text |-> "a.com"]])
    /\ libs = TRUE
    /\ InitProcess
    /\ InitLocals
    /\ NoPure

NextPool ==
    \/ DetermineDomains
    \/ Submit
    \/ \E i \in DOMAIN future_map : WorkerStart(i)
    \/ \E i \in DOMAIN future_map : TaskReturnWith(i, AllAnswered)

SpecPool == InitPool /\ [][NextPool]_vars

(***************************************************************************)
(* Properties.                                                             *)
(***************************************************************************)
\* main has left the with block of the executor
PoolLeft == pc \in {"report", "alert", "smtp", "summary", "returned", "exited"}
key_count(d, k) == Cardinality({i \in DOMAIN d : d[i].key = k})
Distinct(s) == \A i, j \in DOMAIN s : s[i] = s[j] => i = j
ReturnedTasks(d) ==
    {i \in DOMAIN future_map : future_map[i].dom = d /\ future_map[i].kind = "result"}
RaisedTasks == {i \in DOMAIN future_map : future_map[i].kind = "exception"}
error_lines(d) ==
    Cardinality({j \in DOMAIN log : log[j].event = "Error analyzing" /\ log[j].subject = d})
all_errors(recs) == Len(recs) = Len(types) /\ \A j \in DOMAIN recs : is_error_value(recs[j].val)

\* C1 as stated: once the executor block is left, every submitted domain is
\* exactly one key of results.
C1_EverySubmittedDomainIsAKey ==
    PoolLeft => \A d \in Range(domains) : key_count(results, d) = 1

\* C1, amended: once the executor block is left, every submitted domain with
\* a scan task that returned is exactly one key of results (also when all 9
\* of its queries failed), a domain whose scan tasks all raised is no key,
\* and every key is a submitted domain.
C1_EveryReturnedDomainIsAKey ==
    PoolLeft =>
        /\ \A d \in Range(domains) :
              key_count(results, d) = (IF ReturnedTasks(d) # {} THEN 1 ELSE 0)
        /\ dict_keys(results) \subseteq Range(domains)

C1_Witness ==
    /\ pc = "report"
    /\ Len(domains) = 2
    /\ \E j \in DOMAIN results : all_errors(results[j].val)
    /\ \A d \in Range(domains) : key_count(results, d) = 1

\* C2: for every domain and every set of failing queries, the dict
\* analyze_dns_records returns has exactly the 9 record types as keys, each
\* once; a failing type holds its error string and every other type holds
\* its formatted answers, whichever types failed before it.
C2_NineKeysWhateverFails ==
    rr.returned =>
        /\ Len(rr.value) = 9
        /\ \A t \in RecordTypes :
              /\ key_count(rr.value, t) = 1
              /\ dict_get(rr.value, t) =
                    (IF t \in rq.failing THEN error_value(rq.reason)
                     ELSE format_answers(t, Zone(rq.domain, t)))

C2_Witness ==
    /\ rr.returned
    /\ rq.failing = {"A", "NS"}
    /\ is_error_value(dict_get(rr.value, "A"))
    /\ ~is_error_value(dict_get(rr.value, "PTR"))

\* C3: with N distinct domains of which K have a scan task that raises, the
\* executor block ends with N - K items in results: each raising task's
\* domain is no key and has one "Error analyzing" log line, and every other
\* domain is a key that holds what its task returned.
C3_RaisingTasksAreOmittedAndLogged ==
    (PoolLeft /\ Distinct(domains)) =>
        /\ Len(results) = Len(domains) - Cardinality(RaisedTasks)
        /\ \A i \in DOMAIN future_map :
              IF i \in RaisedTasks
              THEN /\ ~dict_has(results, future_map[i].dom)
                   /\ error_lines(future_map[i].dom) = 1
              ELSE /\ dict_has(results, future_map[i].dom)
                   /\ dict_get(results, future_map[i].dom) = future_map[i].value
                   /\ error_lines(future_map[i].dom) = 0

C3_Witness ==
    /\ pc = "report"
    /\ Len(domains) = 2 /\ Distinct(domains)
    /\ Cardinality(RaisedTasks) = 1
    /\ Len(results) = 1

\* C4: at most max_workers scan tasks are started and not finished, however
\* many domains were submitted.
C4_AtMostMaxWorkersRunning == Cardinality(Running) <= max_workers

C4_Witness ==
    /\ Cardinality(Running) = max_workers
    /\ \E i \in DOMAIN future_map : future_map[i].state = "PENDING"

\* C5: when main is past the executor block (reporting, alerting, summary),
\* every domain has been submitted and every future is finished and was
\* handled by the loop: collected into results, or logged and omitted.
C5_NothingRunsAfterThePool ==
    PoolLeft =>
        /\ Len(future_map) = Len(domains)
        /\ \A i \in DOMAIN future_map :
              /\ future_map[i].state = "FINISHED"
              /\ i \in yielded
              /\ future_map[i].kind = "result" => dict_has(results, future_map[i].dom)
              /\ future_map[i].kind = "exception" => error_lines(future_map[i].dom) >= 1

C5_Witness ==
    /\ pc = "alert"
    /\ Len(future_map) = 2
    /\ \E i, j \in DOMAIN future_map :
          future_map[i].kind = "result" /\ future_map[j].kind = "exception"

C7_ZoneTransferOptionProbesNameservers ==
    (pc = "report" /\ argv.zone_transfer) =>
        \A j \in DOMAIN results :
            LET ns == dict_get(results[j].val, "NS")
            IN  ns.type = "list" =>
                    \A k \in DOMAIN ns.items :
                        \E p \in probes : /\ p.domain = results[j].key
                                          /\ p.nameserver = ns.items[k]

\* C8: check_zone_transfer returns the empty list whenever the transfer
\* raised, whatever had arrived before, and exactly the lines of the zone
\* when the transfer went through.
C8_ProtectedUnlessTransferred ==
    xr.returned =>
        /\ xq.xfr.failure # None => xr.value = <<>>
        /\ xq.xfr.failure = None => xr.value = xq.xfr.lines

C8_Witness ==
    /\ xr.returned
    /\ xq.xfr.failure = "malformed"
    /\ xq.xfr.lines # <<>>
    /\ xr.value = <<>>

\* C9: the alert body has exactly one line "[ALERT] <domain> allows zone
\* transfer on <nameserver>" for every probed pair whose transfer went
\* through, no line for any other pair and no other line; after the alert
\* block one message was handed to send_email_notification if some pair was
\* exposed, and none otherwise.
line_count(b, l) == Cardinality({j \in DOMAIN b : b[j] = l})
is_exposed(p) == p.xfr.failure = None
alert_attempts ==
    Cardinality({j \in DOMAIN log :
                    log[j].event \in {"Alert email sent", "Failed to send email"}})

C9_OneLinePerExposedPair ==
    /\ \A p \in probes :
          line_count(body, alert_line(p.domain, p.nameserver)) =
              (IF is_exposed(p) THEN 1 ELSE 0)
    /\ \A j \in DOMAIN body :
          \E p \in probes : is_exposed(p) /\ body[j] = alert_line(p.domain, p.nameserver)
    /\ pc \in {"summary", "returned", "exited"} =>
          alert_attempts = (IF \E p \in probes : is_exposed(p) THEN 1 ELSE 0)

C9_Witness ==
    /\ pc = "summary"
    /\ Len(body) = 1
    /\ Cardinality(probes) = 4
    /\ alert_attempts = 1

\* C10 as stated: without a domain and an inventory, or with an inventory
\* file that does not exist, the process exits non-zero having dispatched no
\* task, written no report and printed no completion summary.
usage_error ==
    \/ argv.domain = None /\ argv.inventory = None
    \/ argv.inventory # None /\ ~inventory_file.exists

C10_UsageErrorIsFatal ==
    (pc = "exited" /\ usage_error) =>
        /\ exit_status # 0
        /\ future_map = <<>>
        /\ reports = <<>>
        /\ \A j \in DOMAIN stdout : stdout[j].msg # "Analysis complete for n domain(s)"


\* every item of results is still in results after the step, with its value
items_kept ==
    \A j \in DOMAIN results :
        /\ dict_has(results', results[j].key)
        /\ dict_get(results', results[j].key) = results[j].val

\* C11 as stated: once a key of results is written, no later step of the
\* same main() call writes another value to it.
C11_KeysAreWrittenOnce == [][call' = call => items_kept]_vars

\* C11, amended: when the submitted domains are distinct, no step of a
\* main() call changes an item results already has; and whatever the list,
\* no step after the executor block (reporting, alerting, summary) changes
\* results.  With a repeated domain a later collected task for the same
\* domain replaces the stored value.
C11_KeysOfDistinctDomainsAreWrittenOnce ==
    [][/\ (call' = call /\ Distinct(domains)) => items_kept
       /\ (call' = call /\ PoolLeft) => results' = results]_vars

C11_Witness ==
    /\ pc = "summary"
    /\ Distinct(domains)
    /\ Len(results) = 2
    /\ reports # <<>>
    /\ probes # {}


\* C12 as stated: every nameserver probed for a domain is one of the
\* nameservers of the NS outcome that results holds for that domain.
C12_ProbedNameserversComeFromResults ==
    \A p \in probes :
        /\ dict_has(results, p.domain)
        /\ LET ns == dict_get(dict_get(results, p.domain), "NS")
           IN  ns.type = "list" /\ p.nameserver \in Range(ns.items)


\* C13: for every domain and every set of failing queries
\* analyze_dns_records returns and does not raise, and the types that hold
\* an error string in the returned dict are exactly the types whose query
\* failed.
C13_ResolutionErrorsNeverRaise ==
    rr # NotReturned =>
        /\ rr.returned /\ ~rr.raised
        /\ {t \in RecordTypes : is_error_value(dict_get(rr.value, t))} = rq.failing

C13_Witness ==
    /\ rr.returned
    /\ rq.failing = RecordTypes
    /\ rq.reason = "Timeout"
    /\ all_errors(rr.value)


\* C14 as stated: under fair scheduling, with every DNS query and every
\* transfer attempt coming back, a main() call that has a domain list gets
\* every task finished and reaches its final summary.
C14_TasksEndAndSummaryIsReached ==
    (pc = "pool") ~> (pc = "summary" /\ all_submitted /\ Finished = DOMAIN future_map)

\* C14, amended: the same, assuming also that the SMTP delivery of the alert
\* comes back; and without that assumption every task is finished and main
\* has left the executor block.
C14_SummaryIsReachedIfSmtpAnswers ==
    /\ WF_vars(send_email_notification) => C14_TasksEndAndSummaryIsReached
    /\ (pc = "pool") ~> (PoolLeft /\ all_submitted /\ Finished = DOMAIN future_map)

C14_Witness ==
    /\ pc = "summary"
    /\ Len(future_map) = 2
    /\ Finished = DOMAIN future_map
    /\ emails # <<>> /\ emails[Len(emails)].call = call


\* C15 as stated: without --zone-transfer no nameserver is probed for a zone
\* transfer during the invocation.
C15_NoProbeWithoutZoneTransferOption ==
    ~argv.zone_transfer => probes = {}

\* C16 as stated: deciding the alert for a domain is a pure function of
\* results: a step of the decision does no NS lookup and no transfer probe.
C16_AlertDecisionReadsOnlyResults ==
    [][(call' = call /\ alert_pos' # alert_pos) =>
           /\ ns_lookups' = ns_lookups
           /\ probes' = probes]_vars

\* C17 as stated: one invocation of the program orchestrates its domain list
\* once, and produces at most one report and at most one alert.
C17_OneOrchestrationPerInvocation ==
    /\ ~(call = 2 /\ pc = "pool" /\ future_map # <<>>)
    /\ Len(reports) <= 1
    /\ Len(emails) <= 1

\* C18: results is written by main only: emptied when a call of main begins,
\* and assigned for one completed future per step of the collecting loop, in
\* a step in which no worker moves; no step of a worker changes it.
C18_OnlyTheCollectingLoopWritesResults ==
    [][results' # results =>
          \/ call' # call /\ results' = <<>>
          \/ /\ pc = "pool" /\ pc' = "pool"
             /\ future_map' = future_map
             /\ \E i \in Finished \ yielded :
                   /\ yielded' = yielded \cup {i}
                   /\ future_map[i].kind = "result"
                   /\ dict_get(results', future_map[i].dom) = future_map[i].value]_vars

C18_Witness ==
    /\ pc = "pool"
    /\ Len(results) = 1
    /\ Running # {}
    /\ Cardinality(yielded) = 1

====
